---- MODULE Spec2Model ----
(***************************************************************************)
(* Pond planner: the transaction manager (PondTransactionManager), the     *)
(* stock manager it protects (PondStockManager), the validation service,   *)
(* the planner facade (PondPlanner: dimensions, save_pond, load_pond), the *)
(* persistence service and the volume, stocking and equipment calculators. *)
(*                                                                         *)
(* Python values are modelled with their type:                             *)
(*   a fish_type argument is [ty |-> "str", s |-> <text>] or a non-string  *)
(*   [ty |-> "int", s |-> <digits>];                                       *)
(*   a quantity is [ty |-> "int" | "float" | "str", v |-> <halves>]: the   *)
(*   numeric value counted in halves, so that 8000.5 is v = 16001 and the  *)
(*   integer 5000 is v = 10000.  Stock values are numbers in halves too.   *)
(***************************************************************************)
EXTENDS Integers, Sequences, FiniteSets, TLC

VARIABLES
    transaction_active,   \* PondTransactionManager._transaction_active
    rollback_data,        \* PondTransactionManager._rollback_data
    transaction_stack,    \* PondTransactionManager._transaction_stack
    fish_stock,           \* PondStockManager._fish_stock
    dimensions,           \* PondPlanner.dimensions
    frames,               \* execute_transaction calls whose operation is running
    handles,              \* dictionaries returned by get_stock and held by a caller
    validation_rules,     \* PondValidationService._validation_rules
    saved_ponds,          \* the file PondPersistenceService keeps for a pond
    last                  \* the most recent call: its arguments and its outcome

vars == <<transaction_active, rollback_data, transaction_stack, fish_stock,
          dimensions, frames, handles, validation_rules, saved_ponds, last>>

----------------------------------------------------------------------------
(* Bounds of the model.                                                     *)

\* largest per-species stock the model lets add_fish / bulk_add_fish build
MaxStock == 15000
\* longest batch handed to bulk_add_fish
MaxBatch == 2
\* deepest nesting of running execute_transaction calls
MaxDepth == 2
\* dictionaries a caller keeps from get_stock
MaxHandles == 2

----------------------------------------------------------------------------
(* Python values.                                                           *)

PyStr(s) == [ty |-> "str", s |-> s]
PyIntKey(s) == [ty |-> "int", s |-> s]
PyInt(i) == [ty |-> "int", v |-> 2 * i]
PyFloatHalves(h) == [ty |-> "float", v |-> h]
PyStrQty == [ty |-> "str", v |-> 0]

IsNumber(q) == q.ty \in {"int", "float"}
IsIntegral(v) == v % 2 = 0

EmptyMap == <<>>

\* dict item assignment d[k] = v
Put(d, k, v) == [x \in (DOMAIN d) \cup {k} |-> IF x = k THEN v ELSE d[x]]
\* del d[k]
Del(d, k) == [x \in (DOMAIN d) \ {k} |-> d[x]]
\* d.get(k, 0)
Get0(d, k) == IF k \in DOMAIN d THEN d[k] ELSE 0

\* str.lower() on the texts the model uses
Lower(s) ==
    CASE s = "GOLDFISH" -> "goldfish"
      [] s = "Goldfish" -> "goldfish"
      [] s = "KOI" -> "koi"
      [] s = "Circular" -> "circular"
      [] OTHER -> s

----------------------------------------------------------------------------
(* Catalogs (read-only reference data).                                     *)

\* keys of YamlFishRepository._fish_cache
FishCatalog == {"goldfish", "koi"}
\* keys of YamlShapeRepository._shapes_cache
ShapeCatalog == {"rectangular", "circular"}

fish_exists(fish_key) == Lower(fish_key) \in FishCatalog
shape_exists(shape_key) == Lower(shape_key) \in ShapeCatalog

----------------------------------------------------------------------------
(* PondValidationService.                                                   *)

MaxQuantity == 10000

\* validate_fish_quantity: the list of error messages is non-empty
QuantityErrors(quantity) ==
    (quantity.v <= 0) \/ (quantity.v > 2 * MaxQuantity)

\* one entry of validate_fish_stock_data's loop adds an error
EntryErrors(entry) ==
    IF entry[1].ty # "str" THEN TRUE
    ELSE IF entry[2].ty # "int" THEN TRUE
    ELSE QuantityErrors(entry[2])

\* validate_fish_stock_data: the list of error messages is non-empty
StockDataErrors(fish_additions) ==
    \E i \in 1..Len(fish_additions) : EntryErrors(fish_additions[i])

----------------------------------------------------------------------------
(* PondTransactionManager.  An engine value e is the three fields of the    *)
(* manager; every operation returns the error it raises ("none" when it     *)
(* returns) and the engine it leaves.                                       *)

Engine == [active |-> transaction_active, rb |-> rollback_data,
           stack |-> transaction_stack]

NewEngine == [active |-> FALSE, rb |-> EmptyMap, stack |-> <<>>]

Front(s) == SubSeq(s, 1, Len(s) - 1)
Top(s) == s[Len(s)]

\* begin_transaction that clears the rollback map before it tests the flag
begin_clears_then_tests(e) ==
    IF e.active
    THEN [err |-> "RuntimeError", eng |-> [e EXCEPT !.rb = EmptyMap]]
    ELSE [err |-> "none", eng |-> [e EXCEPT !.active = TRUE, !.rb = EmptyMap]]

begin_transaction(e) ==
    IF e.active
    THEN [err |-> "RuntimeError", eng |-> e]
    ELSE [err |-> "none", eng |-> [e EXCEPT !.active = TRUE, !.rb = EmptyMap]]

\* commit_transaction that clears the flag and keeps the snapshots
commit_keeps_snapshots(e) ==
    IF ~e.active
    THEN [err |-> "RuntimeError", eng |-> e]
    ELSE [err |-> "none", eng |-> [e EXCEPT !.active = FALSE]]

commit_transaction(e) ==
    IF ~e.active
    THEN [err |-> "RuntimeError", eng |-> e]
    ELSE [err |-> "none",
          eng |-> [active |-> FALSE, rb |-> EmptyMap, stack |-> <<>>]]

\* rollback_transaction that clears the bookkeeping and forgets the flag
rollback_keeps_active(e) ==
    IF ~e.active
    THEN [err |-> "RuntimeError", eng |-> e]
    ELSE [err |-> "none",
          eng |-> [active |-> TRUE, rb |-> EmptyMap, stack |-> <<>>]]

rollback_transaction(e) ==
    IF ~e.active
    THEN [err |-> "RuntimeError", eng |-> e]
    ELSE [err |-> "none",
          eng |-> [active |-> FALSE, rb |-> EmptyMap, stack |-> <<>>]]

is_in_transaction(e) == e.active

\* the stock manager's dictionary itself, as an object another object can hold
LiveStock == [ref |-> "fish_stock"]

\* the value an object v holds when the manager's dictionary holds stock
Held(v, stock) == IF DOMAIN v = {"ref"} THEN stock ELSE v

\* save_state that stores the object it is given: the callers hand in the
\* manager's dictionary for the stock, and the dimensions object, which is
\* replaced and never changed
save_state_keeps_reference(e, key, value) ==
    IF e.active /\ key \notin DOMAIN e.rb
    THEN [e EXCEPT !.rb = Put(e.rb, key, IF key = "fish_stock" THEN LiveStock
                                         ELSE value)]
    ELSE e

\* copy.deepcopy(value) is a value of its own: the model holds values, so the
\* copy is the value itself
save_state(e, key, value) ==
    IF e.active /\ key \notin DOMAIN e.rb
    THEN [e EXCEPT !.rb = Put(e.rb, key, value)]
    ELSE e

\* None is modelled as [present |-> FALSE]
get_rollback_state(e, key) ==
    IF key \in DOMAIN e.rb
    THEN [present |-> TRUE, value |-> e.rb[key]]
    ELSE [present |-> FALSE]

\* execute_transaction that runs a top-level operation without beginning
EnterTransactionNoBegin(e) ==
    IF e.active
    THEN [kind |-> "nested", eng |-> [e EXCEPT !.stack = Append(e.stack, e.rb)]]
    ELSE [kind |-> "top", eng |-> e]

\* execute_transaction up to the call of operation(): which path is taken
\* ("top": begin_transaction was called; "nested": a savepoint was pushed) and
\* the engine the operation starts with
EnterTransaction(e) ==
    IF e.active
    THEN [kind |-> "nested", eng |-> [e EXCEPT !.stack = Append(e.stack, e.rb)]]
    ELSE [kind |-> "top", eng |-> begin_transaction(e).eng]

\* execute_transaction (lines 84-90) after operation() has returned or raised:
\* r is what the operation did, [err, eng, st, result]
ExitTop(r) ==
    IF r.err = "none"
    THEN LET c == commit_transaction(r.eng) IN
         IF c.err = "none"
         THEN [r EXCEPT !.eng = c.eng]
         ELSE \* commit raised inside the try: the handler calls rollback
              LET b == rollback_transaction(r.eng) IN
              [r EXCEPT !.err = IF b.err = "none" THEN c.err ELSE b.err,
                        !.eng = b.eng, !.result = "none"]
    ELSE LET b == rollback_transaction(r.eng) IN
         [r EXCEPT !.err = IF b.err = "none" THEN r.err ELSE b.err,
                   !.eng = b.eng]

\* _execute_nested_transaction whose handler pops the savepoint and drops it
ExitNestedNoRestore(r) ==
    IF r.eng.stack = <<>>
    THEN [r EXCEPT !.err = "IndexError", !.result = "none"]
    ELSE [r EXCEPT !.eng.stack = Front(r.eng.stack)]

\* _execute_nested_transaction (lines 116-124) after operation() has returned
\* or raised.  list.pop() on an empty list raises IndexError; in the try block
\* it is caught and the handler's own pop raises it again.
ExitNested(r) ==
    IF r.eng.stack = <<>>
    THEN [r EXCEPT !.err = "IndexError", !.result = "none"]
    ELSE IF r.err = "none"
    THEN [r EXCEPT !.eng.stack = Front(r.eng.stack)]
    ELSE [r EXCEPT !.eng.rb = Top(r.eng.stack),
                   !.eng.stack = Front(r.eng.stack)]

\* execute_transaction that ends a nested call the way it ends a top-level one
ExitTransactionAlwaysTop(kind, r) == ExitTop(r)

ExitTransaction(kind, r) ==
    IF kind = "top" THEN ExitTop(r) ELSE ExitNested(r)

----------------------------------------------------------------------------
(* PondStockManager.  st is the state the operations act on,                *)
(* [fish_stock, dimensions]; an operation body returns                      *)
(* [err, eng, st, result].                                                  *)

State == [fish_stock |-> fish_stock, dimensions |-> dimensions]

Raise(error, e, st) == [err |-> error, eng |-> e, st |-> st, result |-> "none"]
Return(e, st) == [err |-> "none", eng |-> e, st |-> st, result |-> "None"]

\* an assignment that overwrites instead of adding
AddToStockOverwrite(stock, fish_key, v) == Put(stock, fish_key, v)

\* the assignment that ends _add_operation (line 74)
AddToStock(stock, fish_key, v) == Put(stock, fish_key, Get0(stock, fish_key) + v)

\* an _add_operation that skips the catalog check
add_operation_no_catalog_check(e, st, fish_type, quantity) ==
    IF ~IsNumber(quantity) THEN Raise("TypeError", e, st)
    ELSE IF QuantityErrors(quantity) THEN Raise("ValueError", e, st)
    ELSE IF fish_type.ty # "str" THEN Raise("AttributeError", e, st)
    ELSE Return(save_state(e, "fish_stock", st.fish_stock),
                [st EXCEPT !.fish_stock =
                    AddToStock(st.fish_stock, Lower(fish_type.s), quantity.v)])

\* add_fish._add_operation.  Comparing a str with 0 raises TypeError; a
\* non-string fish_type has no lower().
add_operation(e, st, fish_type, quantity) ==
    IF ~IsNumber(quantity) THEN Raise("TypeError", e, st)
    ELSE IF QuantityErrors(quantity) THEN Raise("ValueError", e, st)
    ELSE IF fish_type.ty # "str" THEN Raise("AttributeError", e, st)
    ELSE IF ~fish_exists(Lower(fish_type.s)) THEN Raise("ValueError", e, st)
    ELSE Return(save_state(e, "fish_stock", st.fish_stock),
                [st EXCEPT !.fish_stock =
                    AddToStock(st.fish_stock, Lower(fish_type.s), quantity.v)])

add_fish(e, st, fish_type, quantity) ==
    LET t == EnterTransaction(e) IN
    ExitTransaction(t.kind, add_operation(t.eng, st, fish_type, quantity))

\* a removal that stores the floor value 0 instead of deleting the key
RemoveFromStockKeepsZero(stock, fish_key, v) ==
    LET diff == stock[fish_key] - v
    IN Put(stock, fish_key, IF diff > 0 THEN diff ELSE 0)

\* lines 121-125 of remove_fish
RemoveFromStock(stock, fish_key, v) ==
    LET diff == stock[fish_key] - v
        new_quantity == IF diff > 0 THEN diff ELSE 0
    IN IF new_quantity = 0 THEN Del(stock, fish_key)
       ELSE Put(stock, fish_key, new_quantity)

\* remove_fish._remove_operation
remove_operation(e, st, fish_type, quantity) ==
    IF ~IsNumber(quantity) THEN Raise("TypeError", e, st)
    ELSE IF QuantityErrors(quantity) THEN Raise("ValueError", e, st)
    ELSE IF fish_type.ty # "str" THEN Raise("AttributeError", e, st)
    ELSE IF Lower(fish_type.s) \notin DOMAIN st.fish_stock THEN Return(e, st)
    ELSE Return(save_state(e, "fish_stock", st.fish_stock),
                [st EXCEPT !.fish_stock =
                    RemoveFromStock(st.fish_stock, Lower(fish_type.s), quantity.v)])

remove_fish(e, st, fish_type, quantity) ==
    LET t == EnterTransaction(e) IN
    ExitTransaction(t.kind, remove_operation(t.eng, st, fish_type, quantity))

\* the loop of lines 182-186: the batch is a dict, iterated in insertion
\* order; fish_additions is the sequence of its (key, quantity) items
RECURSIVE AddAll(_, _)
AddAll(stock, fish_additions) ==
    IF fish_additions = <<>> THEN stock
    ELSE AddAll(AddToStock(stock, Lower(Head(fish_additions)[1].s),
                           Head(fish_additions)[2].v),
                Tail(fish_additions))

\* a batch operation that skips the catalog check
bulk_add_no_catalog_check(e, st, fish_additions) ==
    IF StockDataErrors(fish_additions) THEN Raise("ValueError", e, st)
    ELSE Return(save_state(e, "fish_stock", st.fish_stock),
                [st EXCEPT !.fish_stock = AddAll(st.fish_stock, fish_additions)])

\* bulk_add_fish._bulk_add_operation
bulk_add_operation(e, st, fish_additions) ==
    IF StockDataErrors(fish_additions) THEN Raise("ValueError", e, st)
    ELSE IF \E i \in 1..Len(fish_additions) :
               ~fish_exists(Lower(fish_additions[i][1].s))
    THEN Raise("ValueError", e, st)
    ELSE Return(save_state(e, "fish_stock", st.fish_stock),
                [st EXCEPT !.fish_stock = AddAll(st.fish_stock, fish_additions)])

\* a bulk_add_fish that sets each species to the quantity of its last entry
bulk_add_fish_overwriting(e, st, fish_additions) ==
    LET t == EnterTransaction(e)
        r == bulk_add_operation(t.eng, st, fish_additions)
        keys == {Lower(fish_additions[i][1].s) : i \in 1..Len(fish_additions)}
        final(k) == CHOOSE i \in 1..Len(fish_additions) :
                        /\ Lower(fish_additions[i][1].s) = k
                        /\ \A j \in 1..Len(fish_additions) :
                               Lower(fish_additions[j][1].s) = k => j <= i
    IN ExitTransaction(t.kind,
           IF r.err # "none" THEN r
           ELSE [r EXCEPT !.st.fish_stock =
                    [k \in (DOMAIN st.fish_stock) \cup keys |->
                         IF k \in keys THEN fish_additions[final(k)][2].v
                         ELSE st.fish_stock[k]]])

bulk_add_fish(e, st, fish_additions) ==
    LET t == EnterTransaction(e) IN
    ExitTransaction(t.kind, bulk_add_operation(t.eng, st, fish_additions))

\* a get_stock that hands out the manager's own dictionary
get_stock_alias(stock) == [ref |-> "internal", items |-> stock]

\* get_stock: dict.copy() builds a new dictionary holding the same items
get_stock(stock) == [ref |-> "copy", items |-> stock]

\* clear_stock: no transaction, no validation
clear_stock(stock) == EmptyMap

has_fish(stock, fish_type) == Lower(fish_type.s) \in DOMAIN stock

----------------------------------------------------------------------------
(* PondPlanner.set_dimensions and the dimension rules.  Lengths are whole   *)
(* numbers of tenths of a metre.                                            *)

\* the rules of DefaultShapeRepository: min 1.0, 1.0, 0.5; max 50.0, 50.0, 5.0
DefaultRules ==
    [min_dimensions |-> [length |-> 10, width |-> 10, depth |-> 5],
     max_dimensions |-> [length |-> 500, width |-> 500, depth |-> 50]]

\* x < min_dims.get(name, 0)
BelowMin(rules, name, x) ==
    IF name \in DOMAIN rules.min_dimensions
    THEN x < rules.min_dimensions[name] ELSE x < 0

\* x > max_dims.get(name, float("inf"))
AboveMax(rules, name, x) ==
    IF name \in DOMAIN rules.max_dimensions
    THEN x > rules.max_dimensions[name] ELSE FALSE

\* validate_dimensions: the list of error messages is non-empty
DimensionErrors(rules, length, width, depth) ==
    \/ BelowMin(rules, "length", length)
    \/ BelowMin(rules, "width", width)
    \/ BelowMin(rules, "depth", depth)
    \/ AboveMax(rules, "length", length)
    \/ AboveMax(rules, "width", width)
    \/ AboveMax(rules, "depth", depth)

\* validate_pond_shape: the list of error messages is non-empty
ShapeErrors(shape) ==
    IF shape.ty # "str" \/ shape.s = "" THEN TRUE
    ELSE ~shape_exists(shape.s)

\* self.dimensions = None
NoDimensions == [set |-> FALSE]

PondDimensions(length, width, depth, shape) ==
    [set |-> TRUE, length_meters |-> length, width_meters |-> width,
     avg_depth_meters |-> depth, shape |-> shape]

\* a _set_dimensions_operation that assigns first and validates afterwards
set_dimensions_assign_first(e, st, rules, length, width, depth, shape) ==
    LET new == [st EXCEPT !.dimensions =
                    PondDimensions(length, width, depth, shape.s)] IN
    IF DimensionErrors(rules, length, width, depth) \/ ShapeErrors(shape)
    THEN Raise("ValueError", e, new)
    ELSE Return(save_state(e, "dimensions", st.dimensions), new)

\* set_dimensions._set_dimensions_operation
set_dimensions_operation(e, st, rules, length, width, depth, shape) ==
    IF DimensionErrors(rules, length, width, depth) \/ ShapeErrors(shape)
    THEN Raise("ValueError", e, st)
    ELSE Return(save_state(e, "dimensions", st.dimensions),
                [st EXCEPT !.dimensions =
                    PondDimensions(length, width, depth, shape.s)])

set_dimensions(e, st, rules, length, width, depth, shape) ==
    LET t == EnterTransaction(e) IN
    ExitTransaction(t.kind,
        set_dimensions_operation(t.eng, st, rules, length, width, depth, shape))

\* the loop of load_pond: add_fish for each item of the loaded fish_stock, in
\* order; the first call that raises ends the loop
RECURSIVE AddEach(_, _, _, _)
AddEach(e, st, items, i) ==
    IF i > Len(items) THEN Return(e, st)
    ELSE LET x == add_fish(e, st, items[i][1], items[i][2]) IN
         IF x.err # "none" THEN x ELSE AddEach(x.eng, x.st, items, i + 1)

\* PondPlanner.load_pond.  configuration is what the persistence service
\* read: [found |-> FALSE] when the file is missing, else the dimensions and
\* the fish_stock items of the file (PondConfiguration.from_dict tests
\* nothing about them).
load_pond(e, st, configuration) ==
    IF ~configuration.found THEN Raise("FileNotFoundError", e, st)
    ELSE AddEach(e, [dimensions |-> configuration.dimensions,
                     fish_stock |-> clear_stock(st.fish_stock)],
                 configuration.fish_stock, 1)

----------------------------------------------------------------------------
(* PondPlanner.save_pond and the PondPersistenceService.  The file of a     *)
(* pond is [found |-> FALSE] while it does not exist; json.dump and         *)
(* json.load keep strings, numbers and the order of a dict's items, so the  *)
(* file holds the dict that to_dict builds.                                 *)

\* a number of the stock as a Python value; a whole number is written as an
\* int (add_fish treats an int and a float of the same value alike)
PyNumber(v) == IF IsIntegral(v) THEN [ty |-> "int", v |-> v]
               ELSE [ty |-> "float", v |-> v]

\* the items of a dict in each order they can have been inserted in
DictItems(stock) ==
    {items \in [1..Cardinality(DOMAIN stock) ->
                    {<<PyStr(k), PyNumber(stock[k])>> : k \in DOMAIN stock}] :
         \A i, j \in DOMAIN items : items[i][1] = items[j][1] => i = j}

\* PondConfiguration.to_dict (name, description and created_at left out)
to_dict(configuration) ==
    [dimensions |->
         [length_meters |-> configuration.dimensions.length_meters,
          width_meters |-> configuration.dimensions.width_meters,
          avg_depth_meters |-> configuration.dimensions.avg_depth_meters,
          shape |-> configuration.dimensions.shape],
     fish_stock |-> configuration.fish_stock]

\* PondConfiguration.from_dict
from_dict(data) ==
    [found |-> TRUE,
     dimensions |-> PondDimensions(data.dimensions.length_meters,
                                   data.dimensions.width_meters,
                                   data.dimensions.avg_depth_meters,
                                   data.dimensions.shape),
     fish_stock |-> data.fish_stock]

\* PondPersistenceService.load_pond on the file
read_pond(file) == IF ~file.found THEN file ELSE from_dict(file.data)

\* PondPlanner.save_pond; items is get_stock() in its order.  The result is
\* the error raised and the file left.
save_pond(st, file, items) ==
    IF ~st.dimensions.set THEN [err |-> "ValueError", file |-> file]
    ELSE [err |-> "none",
          file |-> [found |-> TRUE,
                    data |-> to_dict([dimensions |-> st.dimensions,
                                      fish_stock |-> items])]]

----------------------------------------------------------------------------
(* VolumeCalculator.  A shape configuration is the dict the shape           *)
(* repository holds for a shape: a function whose domain is the keys        *)
(* present, among "formula_type", "multiplier" (hundredths) and             *)
(* "area_formula" (the set of the words the description contains).  An      *)
(* area is [coef, n]: the number coef * n in square tenths of a metre,      *)
(* with coef one of the factors of the formulas; a volume in cubic metres   *)
(* is [coef, n] in units of 10^-5 m3 (tenths cubed times hundredths), and   *)
(* litres are in units of 10^-5 litre.                                      *)

\* litres in a cubic metre (line 78)
LitersPerCubicMeter == 1000

\* shape_config.get(key, default)
ConfigGet(shape_config, key, default) ==
    IF key \in DOMAIN shape_config THEN shape_config[key] ELSE default

\* word in shape_config.get("area_formula", "")
Mentions(shape_config, word) ==
    word \in ConfigGet(shape_config, "area_formula", {})

\* the area of _calculate_volume_by_shape_config (lines 184-206)
Area(shape_config, length, width) ==
    LET formula_type == ConfigGet(shape_config, "formula_type", "simple") IN
    CASE formula_type = "simple" -> [coef |-> "1", n |-> length * width]
      [] formula_type = "circular" -> [coef |-> "pi/4", n |-> width * width]
      [] formula_type = "elliptical" -> [coef |-> "pi/4", n |-> length * width]
      [] formula_type = "triangular" -> [coef |-> "1/2", n |-> length * width]
      [] formula_type = "polygon" ->
            IF Mentions(shape_config, "hexagonal")
            THEN [coef |-> "3*sqrt(3)/2", n |-> width * width]
            ELSE IF Mentions(shape_config, "octagonal")
            THEN [coef |-> "2*(1+sqrt(2))", n |-> width * width]
            ELSE [coef |-> "1", n |-> length * width]
      [] formula_type = "approximation" ->
            IF Mentions(shape_config, "pi")
            THEN [coef |-> "pi/4", n |-> length * width]
            ELSE [coef |-> "1", n |-> length * width]
      [] OTHER -> [coef |-> "1", n |-> length * width]

\* a rule that computes the area and forgets the multiplier
volume_without_multiplier(shape_config, length, width, depth) ==
    LET area == Area(shape_config, length, width) IN
    [coef |-> area.coef, n |-> area.n * 100 * depth]

\* _calculate_volume_by_shape_config: area * multiplier * depth; a missing
\* multiplier is 1.0
calculate_volume_by_shape_config(shape_config, length, width, depth) ==
    LET area == Area(shape_config, length, width)
        multiplier == ConfigGet(shape_config, "multiplier", 100)
    IN [coef |-> area.coef, n |-> area.n * multiplier * depth]

\* VolumeCalculator._validate_dimensions: the error it raises, or "none"
validate_dimensions_error(rules, dims) ==
    IF ~dims.set THEN "ValueError"
    ELSE IF dims.shape = "" THEN "ValueError"
    ELSE IF ~shape_exists(dims.shape) THEN "ValueError"
    ELSE IF DimensionErrors(rules, dims.length_meters, dims.width_meters,
                            dims.avg_depth_meters)
    THEN "ValueError"
    ELSE "none"

\* a calculate_volume_liters without the test of the computed volume
calculate_volume_unchecked(rules, shape_config, dims) ==
    IF validate_dimensions_error(rules, dims) # "none"
    THEN [err |-> validate_dimensions_error(rules, dims)]
    ELSE LET volume_m3 == calculate_volume_by_shape_config(shape_config,
                 dims.length_meters, dims.width_meters, dims.avg_depth_meters)
         IN [err |-> "none",
             liters |-> [coef |-> volume_m3.coef,
                         n |-> volume_m3.n * LitersPerCubicMeter]]

\* VolumeCalculator.calculate_volume_liters; shape_config is what
\* get_shape_by_key(dimensions.shape) returns.  Every coef is a positive
\* number, so the volume is <= 0 exactly when n is.
calculate_volume_liters(rules, shape_config, dims) ==
    IF validate_dimensions_error(rules, dims) # "none"
    THEN [err |-> validate_dimensions_error(rules, dims)]
    ELSE LET volume_m3 == calculate_volume_by_shape_config(shape_config,
                 dims.length_meters, dims.width_meters, dims.avg_depth_meters)
         IN IF volume_m3.n <= 0
            THEN [err |-> "ValueError"]
            ELSE [err |-> "none",
                  liters |-> [coef |-> volume_m3.coef,
                              n |-> volume_m3.n * LitersPerCubicMeter]]

----------------------------------------------------------------------------
(* StockingCalculator.  fish_cache is the repository's dict of Fish by      *)
(* lower-case key; a Fish attribute is Some(v) or None.  Litres and         *)
(* quantities are whole numbers, bioload factors are tenths.  A stock       *)
(* handed to the calculator is the sequence of its items, in dict order.    *)

None == [present |-> FALSE]
Some(v) == [present |-> TRUE, value |-> v]

\* YamlFishRepository.get_fish_by_key: KeyError when the key is missing
get_fish_by_key(fish_cache, fish_key) ==
    IF Lower(fish_key) \notin DOMAIN fish_cache
    THEN [err |-> "KeyError"]
    ELSE [err |-> "none", fish |-> fish_cache[Lower(fish_key)]]

\* the loop shared by calculate_required_volume and calculate_bioload from
\* item i on, with the running total; attribute names the Fish field used
RECURSIVE StockTotal(_, _, _, _, _)
StockTotal(fish_cache, attribute, items, i, total) ==
    IF i > Len(items) THEN [err |-> "none", value |-> total]
    ELSE LET quantity == items[i][2]
             found == get_fish_by_key(fish_cache, items[i][1])
         IN IF quantity <= 0
            THEN StockTotal(fish_cache, attribute, items, i + 1, total)
            ELSE IF found.err # "none" THEN [err |-> found.err]
            ELSE IF ~found.fish[attribute].present THEN [err |-> "ValueError"]
            ELSE IF found.fish[attribute].value <= 0 THEN [err |-> "ValueError"]
            ELSE StockTotal(fish_cache, attribute, items, i + 1,
                            total + found.fish[attribute].value * quantity)

\* StockingCalculator.calculate_required_volume
calculate_required_volume(fish_cache, fish_stock_items) ==
    StockTotal(fish_cache, "min_liters_per_fish", fish_stock_items, 1, 0)

\* a bioload summed over the litres instead of the bioload factors
bioload_from_liters(fish_cache, fish_stock_items) ==
    StockTotal(fish_cache, "min_liters_per_fish", fish_stock_items, 1, 0)

\* StockingCalculator.calculate_bioload
calculate_bioload(fish_cache, fish_stock_items) ==
    StockTotal(fish_cache, "bioload_factor", fish_stock_items, 1, 0)

\* the loop of get_stocking_recommendations from fish i on; all_fish is the
\* sequence of get_all_fish().values(), a Fish being [name,
\* min_liters_per_fish]; int() of a positive quotient is its floor
RECURSIVE Recommend(_, _, _, _)
Recommend(all_fish, i, recommendations, pond_volume_liters) ==
    IF i > Len(all_fish) THEN recommendations
    ELSE LET fish == all_fish[i] IN
         IF ~fish.min_liters_per_fish.present
         THEN Recommend(all_fish, i + 1, recommendations, pond_volume_liters)
         ELSE IF fish.min_liters_per_fish.value <= 0
         THEN Recommend(all_fish, i + 1, recommendations, pond_volume_liters)
         ELSE Recommend(all_fish, i + 1,
                  Put(recommendations, fish.name,
                      pond_volume_liters \div fish.min_liters_per_fish.value),
                  pond_volume_liters)

\* recommendations that take any volume
recommendations_for_any_volume(all_fish, pond_volume_liters) ==
    [err |-> "none",
     value |-> Recommend(all_fish, 1, EmptyMap, pond_volume_liters)]

\* StockingCalculator.get_stocking_recommendations
get_stocking_recommendations(all_fish, pond_volume_liters) ==
    IF pond_volume_liters <= 0 THEN [err |-> "ValueError"]
    ELSE [err |-> "none",
          value |-> Recommend(all_fish, 1, EmptyMap, pond_volume_liters)]

\* a validate_stocking that wants room to spare
validate_stocking_strict(fish_cache, fish_stock_items, pond_volume_liters) ==
    LET required_volume == calculate_required_volume(fish_cache, fish_stock_items)
    IN IF required_volume.err # "none" THEN required_volume
       ELSE [err |-> "none", value |-> pond_volume_liters > required_volume.value]

\* StockingCalculator.validate_stocking
validate_stocking(fish_cache, fish_stock_items, pond_volume_liters) ==
    LET required_volume == calculate_required_volume(fish_cache, fish_stock_items)
    IN IF required_volume.err # "none" THEN required_volume
       ELSE [err |-> "none", value |-> pond_volume_liters >= required_volume.value]

----------------------------------------------------------------------------
(* Python floats.  A float is an IEEE 754 double: [m, e] is the number      *)
(* m * 2^e, where m is a natural number written as its digits in base       *)
(* 2^DigitBits, the least significant first and the most significant not    *)
(* 0 (<<>> is 0).  A result of float arithmetic is the exact result rounded *)
(* to MantissaBits binary digits, to the nearest and on a tie to the even   *)
(* one.  Only numbers >= 0 far from the exponent limits occur here.         *)

MantissaBits == 53
DigitBits == 14
Base == 2 ^ DigitBits

\* the digits of a natural number
RECURSIVE Digits(_)
Digits(n) == IF n = 0 THEN <<>> ELSE <<n % Base>> \o Digits(n \div Base)

\* the natural number with these digits
RECURSIVE DigitsValue(_)
DigitsValue(m) == IF m = <<>> THEN 0 ELSE m[1] + Base * DigitsValue(Tail(m))

\* without the zeros at the high end
RECURSIVE Trim(_)
Trim(m) ==
    IF m = <<>> THEN <<>>
    ELSE IF m[Len(m)] = 0 THEN Trim(SubSeq(m, 1, Len(m) - 1))
    ELSE m

RECURSIVE AddCarry(_, _, _, _)
AddCarry(a, b, i, carry) ==
    IF i > Len(a) /\ i > Len(b)
    THEN IF carry = 0 THEN <<>> ELSE <<carry>>
    ELSE LET x == IF i > Len(a) THEN 0 ELSE a[i]
             y == IF i > Len(b) THEN 0 ELSE b[i]
             s == x + y + carry
         IN <<s % Base>> \o AddCarry(a, b, i + 1, s \div Base)

\* a + b
BigAdd(a, b) == AddCarry(a, b, 1, 0)

RECURSIVE MulCarry(_, _, _, _)
MulCarry(a, d, i, carry) ==
    IF i > Len(a) THEN IF carry = 0 THEN <<>> ELSE <<carry>>
    ELSE LET p == a[i] * d + carry
         IN <<p % Base>> \o MulCarry(a, d, i + 1, p \div Base)

\* a * d for one digit d
MulDigit(a, d) == IF d = 0 THEN <<>> ELSE MulCarry(a, d, 1, 0)

\* m * Base
ShiftDigit(m) == IF m = <<>> THEN <<>> ELSE <<0>> \o m

RECURSIVE MulDigits(_, _, _)
MulDigits(a, b, i) ==
    IF i > Len(b) THEN <<>>
    ELSE BigAdd(MulDigit(a, b[i]), ShiftDigit(MulDigits(a, b, i + 1)))

\* a * b
BigMul(a, b) == MulDigits(a, b, 1)

RECURSIVE DivDigits(_, _, _, _, _)
DivDigits(m, d, i, rem, q) ==
    IF i = 0 THEN [q |-> Trim(q), rem |-> rem]
    ELSE LET r == Base * rem + m[i]
         IN DivDigits(m, d, i - 1, r % d, <<r \div d>> \o q)

\* quotient and remainder of m by the positive integer d
BigDiv(m, d) == DivDigits(m, d, Len(m), 0, <<>>)

\* the number of binary digits of m
BitLength(m) ==
    IF m = <<>> THEN 0
    ELSE (Len(m) - 1) * DigitBits
         + (CHOOSE n \in 1..DigitBits :
                2 ^ (n - 1) <= m[Len(m)] /\ m[Len(m)] < 2 ^ n)

\* the i-th binary digit of m, counted from the least significant one
Bit(m, i) ==
    LET j == (i - 1) \div DigitBits + 1
    IN IF j > Len(m) THEN 0 ELSE (m[j] \div 2 ^ ((i - 1) % DigitBits)) % 2

\* m * 2^k
ShiftLeft(m, k) ==
    LET q == k \div DigitBits
        r == k % DigitBits
        digit(j) == IF j >= 1 /\ j <= Len(m) THEN m[j] ELSE 0
    IN Trim([i \in 1..(Len(m) + q + 1) |->
                 (digit(i - q) % 2 ^ (DigitBits - r)) * 2 ^ r
                 + digit(i - q - 1) \div 2 ^ (DigitBits - r)])

\* floor(m / 2^k)
ShiftRight(m, k) ==
    LET q == k \div DigitBits
        r == k % DigitBits
        digit(j) == IF j >= 1 /\ j <= Len(m) THEN m[j] ELSE 0
    IN IF q >= Len(m) THEN <<>>
       ELSE Trim([i \in 1..(Len(m) - q) |->
                     digit(i + q) \div 2 ^ r
                     + (digit(i + q + 1) % 2 ^ r) * 2 ^ (DigitBits - r)])

\* the double nearest to m * 2^e, or to a number just above it when inexact
RoundToDouble(m, e, inexact) ==
    IF BitLength(m) <= MantissaBits THEN [m |-> m, e |-> e]
    ELSE LET k == BitLength(m) - MantissaBits
             kept == ShiftRight(m, k)
             above_half == inexact \/ \E i \in 1..(k - 1) : Bit(m, i) = 1
             up == Bit(m, k) = 1 /\ (above_half \/ Bit(kept, 1) = 1)
         IN [m |-> IF up THEN BigAdd(kept, <<1>>) ELSE kept, e |-> e + k]

\* float(n) of an integer n >= 0
float(n) == [m |-> Digits(n), e |-> 0]

\* x * y
float_mul(x, y) == RoundToDouble(BigMul(x.m, y.m), x.e + y.e, FALSE)

\* x + y
float_add(x, y) ==
    LET low == IF x.e <= y.e THEN x.e ELSE y.e
    IN RoundToDouble(BigAdd(ShiftLeft(x.m, x.e - low),
                            ShiftLeft(y.m, y.e - low)), low, FALSE)

\* x / d for a positive integer d: the quotient is taken with enough digits
\* below the last one kept for the rounding to be that of the exact quotient
float_div(x, d) ==
    LET k == MantissaBits + BitLength(Digits(d)) + 1
        qr == BigDiv(ShiftLeft(x.m, k), d)
    IN RoundToDouble(qr.q, x.e - k, qr.rem # 0)

\* int(x): the whole part
int(x) ==
    IF x.e >= 0 THEN DigitsValue(ShiftLeft(x.m, x.e))
    ELSE DigitsValue(ShiftRight(x.m, 0 - x.e))

----------------------------------------------------------------------------
(* EquipmentCalculator.  Volumes and bioloads are whole numbers; a text     *)
(* built from a number is the pair of the number and the words after it.    *)

\* EquipmentCalculator.calculate_pump_size
calculate_pump_size(pond_volume_liters, bioload) ==
    IF pond_volume_liters <= 0 THEN [err |-> "ValueError"]
    ELSE IF bioload < 0 THEN [err |-> "ValueError"]
    ELSE LET base_flow == float_div(float(pond_volume_liters), 2)
             bioload_multiplier ==
                 float_add(float(1), float_div(float(bioload), 10))
             required_lph == int(float_mul(base_flow, bioload_multiplier))
             category == IF bioload <= 5 THEN "Light bioload"
                         ELSE IF bioload <= 15 THEN "Medium bioload"
                         ELSE "Heavy bioload"
         IN [err |-> "none", value |-> <<required_lph, category>>]

\* filter specifications with one UV rate for every bioload
filter_specifications_one_uv_rate(pond_volume_liters, bioload) ==
    IF pond_volume_liters <= 0 THEN [err |-> "ValueError"]
    ELSE IF bioload < 0 THEN [err |-> "ValueError"]
    ELSE LET bio_filter_percent == IF 5 + bioload < 15 THEN 5 + bioload ELSE 15
             bio_filter_liters ==
                 int(float_div(float_mul(float(pond_volume_liters),
                                         float(bio_filter_percent)), 100))
             uv_watts_per_liter == float_div(float(1), 285)
             uv_watts == int(float_mul(float(pond_volume_liters),
                                       uv_watts_per_liter))
         IN [err |-> "none",
             value |-> [biological_filter |->
                            <<bio_filter_liters, " liters filter media">>,
                        uv_sterilizer |-> <<uv_watts, " watts">>,
                        mechanical_filter |->
                            "Pre-filter with 50-100 micron capability"]]

\* EquipmentCalculator.calculate_filter_specifications
calculate_filter_specifications(pond_volume_liters, bioload) ==
    IF pond_volume_liters <= 0 THEN [err |-> "ValueError"]
    ELSE IF bioload < 0 THEN [err |-> "ValueError"]
    ELSE LET bio_filter_percent == IF 5 + bioload < 15 THEN 5 + bioload ELSE 15
             bio_filter_liters ==
                 int(float_div(float_mul(float(pond_volume_liters),
                                         float(bio_filter_percent)), 100))
             uv_watts_per_liter == IF bioload <= 10
                                   THEN float_div(float(1), 285)
                                   ELSE float_div(float(1), 190)
             uv_watts == int(float_mul(float(pond_volume_liters),
                                       uv_watts_per_liter))
         IN [err |-> "none",
             value |-> [biological_filter |->
                            <<bio_filter_liters, " liters filter media">>,
                        uv_sterilizer |-> <<uv_watts, " watts">>,
                        mechanical_filter |->
                            "Pre-filter with 50-100 micron capability"]]

----------------------------------------------------------------------------
(* Arguments the callers pass.                                              *)

\* add_fish calls: goldfish with 0, 5000, 10000, 10001 and a str; an
\* upper-case key; koi with 10000 and with the float 8000.5; an unknown
\* species and a key that is no string
AddInputs ==
    ({PyStr("goldfish")} \X {PyInt(0), PyInt(5000), PyInt(MaxQuantity),
                               PyInt(MaxQuantity + 1), PyStrQty})
    \cup ({PyStr("GOLDFISH")} \X {PyInt(5000)})
    \cup ({PyStr("koi")} \X {PyInt(MaxQuantity), PyFloatHalves(16001)})
    \cup ({PyStr("invalid_fish"), PyIntKey("123")} \X {PyInt(5000)})

\* remove_fish calls
RemoveInputs ==
    ({PyStr("goldfish"), PyStr("GOLDFISH")} \X
         {PyInt(0), PyInt(5000), PyInt(MaxQuantity + 1), PyStrQty})
    \cup ({PyStr("koi")} \X {PyInt(MaxQuantity)})
    \cup ({PyStr("invalid_fish"), PyIntKey("123")} \X {PyInt(5000)})

\* items a batch is built from
BatchEntries ==
    {<<PyStr("goldfish"), PyInt(5000)>>,
     <<PyStr("GOLDFISH"), PyInt(5000)>>,
     <<PyStr("koi"), PyInt(0)>>,
     <<PyStr("KOI"), PyInt(MaxQuantity + 1)>>,
     <<PyStr("Goldfish"), PyFloatHalves(16001)>>,
     <<PyStr("invalid_fish"), PyInt(5000)>>,
     <<PyIntKey("123"), PyInt(5000)>>}

\* a dict has each key once
DistinctKeys(b) == \A i, j \in 1..Len(b) : b[i][1] = b[j][1] => i = j

Batches ==
    {b \in UNION {[1..n -> BatchEntries] : n \in 0..MaxBatch} : DistinctKeys(b)}

\* validation rules a shape repository can supply: the defaults, rules
\* without minimums, and none at all (data.get("validation_rules", {}))
RuleSets ==
    {DefaultRules,
     [min_dimensions |-> EmptyMap, max_dimensions |-> DefaultRules.max_dimensions],
     [min_dimensions |-> EmptyMap, max_dimensions |-> EmptyMap]}

\* set_dimensions calls: lengths and depths below, at and above the bounds
\* (tenths of a metre), shapes known, known in capitals, unknown, empty and
\* not a string
DimensionInputs ==
    ({0 - 10, 0, 9, 10, 500, 501} \X {30} \X {15}
         \X {PyStr("rectangular")})
    \cup ({30} \X {0, 40} \X {0, 5, 51}
         \X {PyStr("Circular"), PyStr("star"), PyStr(""), PyIntKey("7")})

\* saved configurations load_pond can read
Configurations ==
    {[found |-> FALSE]} \cup
    [found : {TRUE},
     dimensions : {PondDimensions(30, 30, 15, "rectangular"),
                   PondDimensions(0 - 10, 0, 15, "star")},
     fish_stock : {<<>>,
                   <<<<PyStr("koi"), PyInt(5000)>>>>,
                   <<<<PyStr("goldfish"), PyInt(5000)>>,
                     <<PyStr("shark"), PyInt(5000)>>,
                     <<PyStr("koi"), PyInt(5000)>>>>}]

\* shape configurations a catalog can hold: every formula type, one the code
\* does not know, a missing type; multipliers 0.75, 1, 0, -1 and missing;
\* descriptions that mention the words tested and that mention none
ShapeConfigs ==
    LET types == {EmptyMap} \cup
            {[formula_type |-> f] : f \in {"simple", "circular", "elliptical",
                "triangular", "polygon", "approximation", "spiral"}}
        multipliers == {EmptyMap} \cup
            {[multiplier |-> m] : m \in {75, 100, 0, 0 - 100}}
        formulas == {EmptyMap} \cup
            {[area_formula |-> a] : a \in {{}, {"hexagonal"}, {"octagonal"},
                {"pi"}, {"hexagonal", "octagonal"}}}
        Merge(a, b) == [k \in (DOMAIN a) \cup (DOMAIN b) |->
                           IF k \in DOMAIN a THEN a[k] ELSE b[k]]
    IN {Merge(x, Merge(y, z)) : x \in types, y \in multipliers, z \in formulas}

\* lengths (tenths of a metre) a caller passes: negative, 0, at a bound, inside
VolumeLengths == {0 - 10, 0, 10, 40}

\* dimensions handed to calculate_volume_liters: None, and PondDimensions
\* objects with lengths, widths and depths around the bounds and shapes known
\* and unknown
VolumeDimensions ==
    {NoDimensions} \cup
    {PondDimensions(l, w, d, s) :
        l \in VolumeLengths, w \in {0, 30}, d \in {0, 15},
        s \in {"rectangular", "Circular", "star", ""}}

\* fish caches of a repository: koi with sound data; goldfish with a sound,
\* an absent and a non-positive value of each attribute
FishCaches ==
    {[goldfish |-> [min_liters_per_fish |-> m, bioload_factor |-> b],
      koi |-> [min_liters_per_fish |-> Some(1000), bioload_factor |-> Some(25)]] :
        m \in {Some(75), None, Some(0)}, b \in {Some(10), None, Some(0 - 5)}}

\* items of a stock handed to the calculator: species of the catalog (one in
\* capitals), one missing from it, quantities negative, 0 and positive
StockItems ==
    {"goldfish", "koi", "GOLDFISH", "shark"} \X {0 - 1, 0, 2, 3}

\* stocks of up to MaxBatch items, each key once
CalculatorStocks ==
    {s \in UNION {[1..n -> StockItems] : n \in 0..MaxBatch} : DistinctKeys(s)}

\* pond volumes in litres: negative, 0, and one below, at and above the
\* requirement of two goldfish
PondVolumes == {0 - 1, 0, 149, 150, 151}

\* catalogs as get_all_fish() returns them: up to MaxBatch species, display
\* names that can repeat, requirements sound, absent and not positive
FishLists ==
    UNION {[1..n -> [name : {"Goldfish", "Koi"},
                     min_liters_per_fish : {Some(75), Some(1000), None,
                                            Some(0)}]] : n \in 0..MaxBatch}

\* pond volumes handed to the equipment calculator: negative, 0, small
\* ones, multiples of 190 and of 285, and the 5000 litres of the tests
EquipmentVolumes == {0 - 1, 0, 45, 90, 100, 190, 285, 570, 1000, 5000}

\* bioloads handed to the equipment calculator: negative, and every whole
\* number up to past the last threshold
Bioloads == (0 - 1)..20

WithinBounds(stock) == \A k \in DOMAIN stock : stock[k] <= 2 * MaxStock

----------------------------------------------------------------------------
(* Initial state: the managers as their constructors leave them.            *)

Init ==
    /\ transaction_active = FALSE
    /\ rollback_data = EmptyMap
    /\ transaction_stack = <<>>
    /\ fish_stock = EmptyMap
    /\ dimensions = NoDimensions
    /\ frames = <<>>
    /\ handles = <<>>
    /\ validation_rules = DefaultRules
    /\ saved_ponds = [found |-> FALSE]
    /\ last = [op |-> "init"]

\* a planner built over a shape repository with any of the rule sets
InitPlanner ==
    /\ transaction_active = FALSE
    /\ rollback_data = EmptyMap
    /\ transaction_stack = <<>>
    /\ fish_stock = EmptyMap
    /\ dimensions = NoDimensions
    /\ frames = <<>>
    /\ handles = <<>>
    /\ validation_rules \in RuleSets
    /\ saved_ponds = [found |-> FALSE]
    /\ last = [op |-> "init"]

\* the engine and the state a call leaves
Leaves(x) ==
    /\ transaction_active' = x.eng.active
    /\ rollback_data' = x.eng.rb
    /\ transaction_stack' = x.eng.stack
    /\ fish_stock' = x.st.fish_stock
    /\ dimensions' = x.st.dimensions

LeavesEngine(e) ==
    /\ transaction_active' = e.active
    /\ rollback_data' = e.rb
    /\ transaction_stack' = e.stack

----------------------------------------------------------------------------
(* Calls on the stock manager and the planner.                              *)

\* is_in_transaction() while the operation handed to execute_transaction runs
InOperation(e) == is_in_transaction(EnterTransaction(e).eng)

AddFish(fish_type, quantity) ==
    LET x == add_fish(Engine, State, fish_type, quantity) IN
    /\ WithinBounds(x.st.fish_stock)
    /\ Leaves(x)
    /\ last' = [op |-> "add_fish", fish_type |-> fish_type,
                quantity |-> quantity, err |-> x.err, stock |-> fish_stock,
                in_transaction |-> InOperation(Engine)]
    /\ UNCHANGED <<frames, handles, validation_rules, saved_ponds>>

RemoveFish(fish_type, quantity) ==
    LET x == remove_fish(Engine, State, fish_type, quantity) IN
    /\ Leaves(x)
    /\ last' = [op |-> "remove_fish", fish_type |-> fish_type,
                quantity |-> quantity, err |-> x.err, stock |-> fish_stock,
                in_transaction |-> InOperation(Engine)]
    /\ UNCHANGED <<frames, handles, validation_rules, saved_ponds>>

BulkAddFish(fish_additions) ==
    LET x == bulk_add_fish(Engine, State, fish_additions) IN
    /\ WithinBounds(x.st.fish_stock)
    /\ Leaves(x)
    /\ last' = [op |-> "bulk_add_fish", fish_additions |-> fish_additions,
                err |-> x.err, stock |-> fish_stock,
                in_transaction |-> InOperation(Engine)]
    /\ UNCHANGED <<frames, handles, validation_rules, saved_ponds>>

ClearStock ==
    /\ fish_stock' = clear_stock(fish_stock)
    /\ last' = [op |-> "clear_stock", err |-> "none", stock |-> fish_stock,
                in_transaction |-> is_in_transaction(Engine)]
    /\ UNCHANGED <<transaction_active, rollback_data, transaction_stack,
                   dimensions, frames, handles, validation_rules, saved_ponds>>

SetDimensions(length, width, depth, shape) ==
    LET x == set_dimensions(Engine, State, validation_rules,
                            length, width, depth, shape) IN
    /\ Leaves(x)
    /\ last' = [op |-> "set_dimensions", length |-> length, width |-> width,
                depth |-> depth, shape |-> shape, err |-> x.err,
                stock |-> fish_stock, dimensions |-> dimensions,
                in_transaction |-> InOperation(Engine)]
    /\ UNCHANGED <<frames, handles, validation_rules, saved_ponds>>

\* load_pond assigns the dimensions and clears the stock itself, with the
\* engine as the caller left it
LoadPond(configuration) ==
    LET x == load_pond(Engine, State, configuration) IN
    /\ Leaves(x)
    /\ last' = [op |-> "load_pond", configuration |-> configuration,
                err |-> x.err, stock |-> fish_stock, dimensions |-> dimensions,
                in_transaction |-> is_in_transaction(Engine)]
    /\ UNCHANGED <<frames, handles, validation_rules, saved_ponds>>

\* save_pond(name) with the stock in the order items
SavePond(items) ==
    LET x == save_pond(State, saved_ponds, items) IN
    /\ saved_ponds' = x.file
    /\ last' = [op |-> "save_pond", err |-> x.err, stock |-> fish_stock,
                dimensions |-> dimensions]
    /\ UNCHANGED <<transaction_active, rollback_data, transaction_stack,
                   fish_stock, dimensions, frames, handles, validation_rules>>

\* load_pond(filename) of the file save_pond wrote
LoadSavedPond == LoadPond(read_pond(saved_ponds))

\* calculate_volume_liters(dimensions) with the catalog holding shape_config
\* for the shape
CalculateVolume(dims, shape_config) ==
    /\ last' = [op |-> "calculate_volume_liters", dimensions |-> dims,
                shape_config |-> shape_config,
                out |-> calculate_volume_liters(validation_rules,
                                                shape_config, dims)]
    /\ UNCHANGED <<transaction_active, rollback_data, transaction_stack,
                   fish_stock, dimensions, frames, handles, validation_rules,
                   saved_ponds>>

\* the three calls on the stocking calculator; fish_cache is what its
\* repository holds
CalculateRequiredVolume(fish_cache, items) ==
    /\ last' = [op |-> "calculate_required_volume", fish_cache |-> fish_cache,
                fish_stock |-> items,
                out |-> calculate_required_volume(fish_cache, items)]
    /\ UNCHANGED <<transaction_active, rollback_data, transaction_stack,
                   fish_stock, dimensions, frames, handles, validation_rules,
                   saved_ponds>>

CalculateBioload(fish_cache, items) ==
    /\ last' = [op |-> "calculate_bioload", fish_cache |-> fish_cache,
                fish_stock |-> items,
                out |-> calculate_bioload(fish_cache, items)]
    /\ UNCHANGED <<transaction_active, rollback_data, transaction_stack,
                   fish_stock, dimensions, frames, handles, validation_rules,
                   saved_ponds>>

ValidateStocking(fish_cache, items, pond_volume_liters) ==
    /\ last' = [op |-> "validate_stocking", fish_cache |-> fish_cache,
                fish_stock |-> items, pond_volume_liters |-> pond_volume_liters,
                out |-> validate_stocking(fish_cache, items, pond_volume_liters)]
    /\ UNCHANGED <<transaction_active, rollback_data, transaction_stack,
                   fish_stock, dimensions, frames, handles, validation_rules,
                   saved_ponds>>

GetStockingRecommendations(all_fish, pond_volume_liters) ==
    /\ last' = [op |-> "get_stocking_recommendations", all_fish |-> all_fish,
                pond_volume_liters |-> pond_volume_liters,
                out |-> get_stocking_recommendations(all_fish,
                                                     pond_volume_liters)]
    /\ UNCHANGED <<transaction_active, rollback_data, transaction_stack,
                   fish_stock, dimensions, frames, handles, validation_rules,
                   saved_ponds>>

CalculatePumpSize(pond_volume_liters, bioload) ==
    /\ last' = [op |-> "calculate_pump_size",
                pond_volume_liters |-> pond_volume_liters, bioload |-> bioload,
                out |-> calculate_pump_size(pond_volume_liters, bioload)]
    /\ UNCHANGED <<transaction_active, rollback_data, transaction_stack,
                   fish_stock, dimensions, frames, handles, validation_rules,
                   saved_ponds>>

CalculateFilterSpecifications(pond_volume_liters, bioload) ==
    /\ last' = [op |-> "calculate_filter_specifications",
                pond_volume_liters |-> pond_volume_liters, bioload |-> bioload,
                out |-> calculate_filter_specifications(pond_volume_liters,
                                                        bioload)]
    /\ UNCHANGED <<transaction_active, rollback_data, transaction_stack,
                   fish_stock, dimensions, frames, handles, validation_rules,
                   saved_ponds>>

----------------------------------------------------------------------------
(* Calls on the transaction manager made by its client.                     *)

BeginTransaction ==
    LET x == begin_transaction(Engine) IN
    /\ LeavesEngine(x.eng)
    /\ last' = [op |-> "begin_transaction", err |-> x.err, engine |-> Engine]
    /\ UNCHANGED <<fish_stock, dimensions, frames, handles, validation_rules,
                   saved_ponds>>

CommitTransaction ==
    LET x == commit_transaction(Engine) IN
    /\ LeavesEngine(x.eng)
    /\ last' = [op |-> "commit_transaction", err |-> x.err, engine |-> Engine]
    /\ UNCHANGED <<fish_stock, dimensions, frames, handles, validation_rules,
                   saved_ponds>>

\* a rollback_transaction that writes the saved stock back
RollbackTransactionRestoring ==
    LET x == rollback_transaction(Engine) IN
    /\ LeavesEngine(x.eng)
    /\ last' = [op |-> "rollback_transaction", err |-> x.err, engine |-> Engine]
    /\ fish_stock' = IF x.err = "none" /\ "fish_stock" \in DOMAIN rollback_data
                     THEN rollback_data["fish_stock"]
                     ELSE fish_stock
    /\ UNCHANGED <<dimensions, frames, handles, validation_rules, saved_ponds>>

RollbackTransaction ==
    LET x == rollback_transaction(Engine) IN
    /\ LeavesEngine(x.eng)
    /\ last' = [op |-> "rollback_transaction", err |-> x.err, engine |-> Engine]
    /\ UNCHANGED <<fish_stock, dimensions, frames, handles, validation_rules,
                   saved_ponds>>

\* save_state(key, <the live value of that name>)
SaveState(key) ==
    /\ LeavesEngine(save_state(Engine, key,
            IF key = "fish_stock" THEN fish_stock ELSE dimensions))
    /\ last' = [op |-> "save_state", key |-> key, err |-> "none",
                engine |-> Engine]
    /\ UNCHANGED <<fish_stock, dimensions, frames, handles, validation_rules,
                   saved_ponds>>

----------------------------------------------------------------------------
(* execute_transaction(operation) with an operation of the client: the call *)
(* is in progress while the operation runs, and the operation's own calls   *)
(* are the other actions.  A frame records the path taken and, for the      *)
(* properties, what the call found on entry.                                *)

OperationResults == {"success", "None"}
OperationErrors == {"ValueError", "TestError"}

ExecuteTransaction ==
    LET t == EnterTransaction(Engine) IN
    /\ Len(frames) < MaxDepth
    /\ LeavesEngine(t.eng)
    /\ frames' = Append(frames, [kind |-> t.kind, engine |-> Engine,
                                 stock |-> fish_stock,
                                 dimensions |-> dimensions])
    /\ last' = [op |-> "call", kind |-> t.kind, err |-> "none"]
    /\ UNCHANGED <<fish_stock, dimensions, handles, validation_rules,
                   saved_ponds>>

\* the running operation returns result / raises error: the rest of
\* execute_transaction runs and the call ends
OperationEnds(error, result) ==
    LET f == Top(frames)
        x == ExitTransaction(f.kind, [err |-> error, eng |-> Engine,
                                      st |-> State, result |-> result])
    IN /\ Leaves(x)
       /\ frames' = Front(frames)
       /\ last' = [op |-> "execute_transaction", kind |-> f.kind,
                   raised |-> error, returned |-> result,
                   err |-> x.err, result |-> x.result,
                   entry |-> f]
       /\ UNCHANGED <<handles, validation_rules, saved_ponds>>

OperationReturns(result) ==
    /\ frames # <<>>
    /\ OperationEnds("none", result)

OperationRaises(error) ==
    /\ frames # <<>>
    /\ OperationEnds(error, "none")

----------------------------------------------------------------------------
(* Dictionaries returned by get_stock.  A handle is a dictionary of its own *)
(* (ref = "copy") or the manager's dictionary itself (ref = "internal").    *)

Items(h) == IF h.ref = "internal" THEN fish_stock ELSE h.items

GetStock ==
    /\ Len(handles) < MaxHandles
    /\ handles' = Append(handles, get_stock(fish_stock))
    /\ last' = [op |-> "get_stock", err |-> "none", stock |-> fish_stock]
    /\ UNCHANGED <<transaction_active, rollback_data, transaction_stack,
                   fish_stock, dimensions, frames, validation_rules,
                   saved_ponds>>

\* the caller assigns returned[key] = v on the i-th dictionary it holds
MutateReturned(i, key, v) ==
    /\ i \in 1..Len(handles)
    /\ IF handles[i].ref = "internal"
       THEN /\ fish_stock' = Put(fish_stock, key, v)
            /\ handles' = handles
       ELSE /\ handles' = [handles EXCEPT ![i].items = Put(@, key, v)]
            /\ fish_stock' = fish_stock
    /\ last' = [op |-> "mutate_returned", handle |-> i, err |-> "none",
                stock |-> fish_stock,
                items |-> [j \in 1..Len(handles) |-> Items(handles[j])]]
    /\ UNCHANGED <<transaction_active, rollback_data, transaction_stack,
                   dimensions, frames, validation_rules, saved_ponds>>

----------------------------------------------------------------------------
(* Specifications.                                                          *)

\* the stock manager driven with every kind of argument
Next ==
    \/ \E a \in AddInputs : AddFish(a[1], a[2])
    \/ \E a \in RemoveInputs : RemoveFish(a[1], a[2])
    \/ \E b \in Batches : BulkAddFish(b)
    \/ ClearStock

Spec == Init /\ [][Next]_vars

\* what an operation handed to execute_transaction does; species are the
\* fish types it adds
OperationStep(species) ==
    \/ \E ft \in species : AddFish(ft, PyInt(MaxQuantity))
    \/ \E l \in {0 - 10, 30} :
           SetDimensions(l, 30, 15, PyStr("rectangular"))
    \/ \E key \in {"fish_stock", "dimensions"} : SaveState(key)
    \/ ExecuteTransaction
    \/ \E r \in OperationResults : OperationReturns(r)
    \/ \E e \in OperationErrors : OperationRaises(e)

\* the transaction manager with operations that save state, change the stock
\* and the dimensions and nest; begin/commit/rollback are called by hand only
\* while no operation runs
NextTx ==
    \/ OperationStep({PyStr("goldfish"), PyStr("koi"), PyStr("unknown")})
    \/ frames = <<>> /\ BeginTransaction
    \/ frames = <<>> /\ CommitTransaction
    \/ frames = <<>> /\ RollbackTransaction

SpecTx == Init /\ [][NextTx]_vars

\* the same, with operations that also call begin/commit/rollback themselves
NextTxAny ==
    \/ OperationStep({PyStr("goldfish"), PyStr("unknown")})
    \/ BeginTransaction
    \/ CommitTransaction
    \/ RollbackTransaction

SpecTxAny == Init /\ [][NextTxAny]_vars

\* a caller keeping and changing the dictionaries get_stock returns
NextCopy ==
    \/ AddFish(PyStr("goldfish"), PyInt(5000))
    \/ RemoveFish(PyStr("goldfish"), PyInt(5000))
    \/ ClearStock
    \/ GetStock
    \/ \E i \in 1..MaxHandles, key \in {"goldfish", "koi"} :
           MutateReturned(i, key, 200)

SpecCopy == Init /\ [][NextCopy]_vars

\* the planner facade: dimensions, stock and saved configurations
NextPlanner ==
    \/ \E d \in DimensionInputs : SetDimensions(d[1], d[2], d[3], d[4])
    \/ \E ft \in {PyStr("goldfish"), PyStr("shark")} : AddFish(ft, PyInt(5000))
    \/ RemoveFish(PyStr("goldfish"), PyInt(MaxQuantity))
    \/ BulkAddFish(<<<<PyStr("koi"), PyInt(5000)>>>>)
    \/ ClearStock
    \/ \E c \in Configurations : LoadPond(c)

SpecPlanner == InitPlanner /\ [][NextPlanner]_vars

\* the volume calculator applied to every dimensions and configuration; it
\* keeps no state, so one call from each initial state covers every call
NextVolume ==
    /\ last.op = "init"
    /\ \E dims \in VolumeDimensions, c \in ShapeConfigs :
           CalculateVolume(dims, c)

SpecVolume == InitPlanner /\ [][NextVolume]_vars

\* the stocking calculator applied to every cache, stock and volume; it
\* keeps no state, so one call from the initial state covers every call
NextStocking ==
    \/ /\ last.op = "init"
       /\ \E c \in FishCaches, s \in CalculatorStocks :
              CalculateRequiredVolume(c, s)
    \/ /\ last.op = "init"
       /\ \E c \in FishCaches, s \in CalculatorStocks : CalculateBioload(c, s)
    \/ /\ last.op = "init"
       /\ \E c \in FishCaches, s \in CalculatorStocks, v \in PondVolumes :
              ValidateStocking(c, s, v)
    \/ /\ last.op = "init"
       /\ \E f \in FishLists, v \in PondVolumes :
              GetStockingRecommendations(f, v)

SpecStocking == Init /\ [][NextStocking]_vars

\* the planner with its saved configuration: dimensions set and not set,
\* stocks built by add_fish, remove_fish and add_fish_batch, save_pond and
\* load_pond of the file
NextStore ==
    \/ \E l \in {0 - 10, 30, 40} :
           SetDimensions(l, 30, 15, PyStr("rectangular"))
    \/ \E ft \in {PyStr("goldfish"), PyStr("koi")} : AddFish(ft, PyInt(5000))
    \/ RemoveFish(PyStr("goldfish"), PyInt(5000))
    \/ BulkAddFish(<<<<PyStr("koi"), PyInt(5000)>>>>)
    \/ \E items \in DictItems(get_stock(fish_stock).items) : SavePond(items)
    \/ LoadSavedPond

SpecStore == Init /\ [][NextStore]_vars

\* the equipment calculator applied to every volume and bioload; it keeps no
\* state, so one call from the initial state covers every call
NextEquipment ==
    \/ /\ last.op = "init"
       /\ \E v \in EquipmentVolumes, b \in Bioloads : CalculatePumpSize(v, b)
    \/ /\ last.op = "init"
       /\ \E v \in EquipmentVolumes, b \in Bioloads :
              CalculateFilterSpecifications(v, b)

SpecEquipment == Init /\ [][NextEquipment]_vars

----------------------------------------------------------------------------
(* Properties.                                                              *)

ValidQuantity(q) == q.ty = "int" /\ q.v > 0 /\ q.v <= 2 * MaxQuantity
KnownSpecies(ft) == ft.ty = "str" /\ Lower(ft.s) \in FishCatalog

\* the stock s with key k left out
Without(s, k) == [x \in (DOMAIN s) \ {k} |-> s[x]]

TopLevelEnded == last.op = "execute_transaction" /\ last.kind = "top"
NestedEnded == last.op = "execute_transaction" /\ last.kind = "nested"

\* C1: when the operation of a top-level execute_transaction raises, the
\* stock and the dimensions are what they were when the call began, whatever
\* the operation changed before it raised.
C1_FailedTransactionRestoresState ==
    (TopLevelEnded /\ last.raised # "none") =>
        /\ fish_stock = last.entry.stock
        /\ dimensions = last.entry.dimensions

\* C2: a batch with an invalid entry at any position makes bulk_add_fish
\* raise and leaves the stock exactly as it was.
C2_InvalidEntry(entry) ==
    \/ entry[1].ty # "str"
    \/ entry[2].ty # "int"
    \/ entry[2].v <= 0
    \/ entry[2].v > 2 * MaxQuantity
    \/ Lower(entry[1].s) \notin FishCatalog

C2_BulkAddAtomic ==
    (/\ last.op = "bulk_add_fish"
     /\ \E i \in 1..Len(last.fish_additions) :
            C2_InvalidEntry(last.fish_additions[i]))
    => (last.err # "none" /\ fish_stock = last.stock)

\* C2 witness: a valid entry first, an invalid one after it, a stock that
\* holds fish, and the call raised.
C2_Witness ==
    /\ last.op = "bulk_add_fish"
    /\ Len(last.fish_additions) = 2
    /\ ~C2_InvalidEntry(last.fish_additions[1])
    /\ C2_InvalidEntry(last.fish_additions[2])
    /\ last.stock # EmptyMap
    /\ last.err = "ValueError"

\* C3: every key of the stock maps to a positive whole number.
C3_StockPositiveIntegers ==
    \A k \in DOMAIN fish_stock : fish_stock[k] > 0 /\ IsIntegral(fish_stock[k])

\* C4: add_fish with a catalog species (any letter case) and a valid quantity
\* succeeds, adds the quantity to what the lower-case key held (0 if
\* absent) and leaves every other key alone.
C4_AddFishAccumulates ==
    (/\ last.op = "add_fish"
     /\ KnownSpecies(last.fish_type)
     /\ ValidQuantity(last.quantity))
    => LET k == Lower(last.fish_type.s)
           held == IF k \in DOMAIN last.stock THEN last.stock[k] ELSE 0
       IN /\ last.err = "none"
          /\ DOMAIN fish_stock = DOMAIN last.stock \cup {k}
          /\ fish_stock[k] = held + last.quantity.v
          /\ Without(fish_stock, k) = Without(last.stock, k)

\* C4 witness: an upper-case key added to a stock that already holds that
\* species and another one.
C4_Witness ==
    /\ last.op = "add_fish"
    /\ last.fish_type = PyStr("GOLDFISH")
    /\ ValidQuantity(last.quantity)
    /\ DOMAIN last.stock = {"goldfish", "koi"}
    /\ last.err = "none"
    /\ fish_stock["goldfish"] > last.stock["goldfish"]

\* C5: add_fish succeeds only with a valid quantity (a positive integer up
\* to the maximum) and a catalog species; with any other arguments it raises
\* and leaves the stock unchanged.
C5_AddFishRejectsInvalid ==
    last.op = "add_fish" =>
        IF KnownSpecies(last.fish_type) /\ ValidQuantity(last.quantity)
        THEN TRUE
        ELSE last.err # "none" /\ fish_stock = last.stock

\* C6 as written, with k the key exactly as the caller passes it: an absent
\* k leaves the stock unchanged, a holding of k not above the quantity is
\* deleted, a larger one is reduced; other keys are unchanged.
C6_RemoveFishKeyAsPassed ==
    (/\ last.op = "remove_fish"
     /\ last.fish_type.ty = "str"
     /\ ValidQuantity(last.quantity))
    => LET k == last.fish_type.s
           q == last.quantity.v
       IN /\ last.err = "none"
          /\ Without(fish_stock, k) = Without(last.stock, k)
          /\ IF k \notin DOMAIN last.stock THEN fish_stock = last.stock
             ELSE IF last.stock[k] <= q THEN k \notin DOMAIN fish_stock
             ELSE k \in DOMAIN fish_stock /\ fish_stock[k] = last.stock[k] - q

\* C6: remove_fish with a string key and a valid quantity succeeds and acts
\* on the lower-case form k of the key: when k is not in the stock the stock
\* is unchanged, a holding not above the quantity is deleted, a larger one is
\* reduced by the quantity; every other key is unchanged.
C6_RemoveFish ==
    (/\ last.op = "remove_fish"
     /\ last.fish_type.ty = "str"
     /\ ValidQuantity(last.quantity))
    => LET k == Lower(last.fish_type.s)
           q == last.quantity.v
       IN /\ last.err = "none"
          /\ Without(fish_stock, k) = Without(last.stock, k)
          /\ IF k \notin DOMAIN last.stock THEN fish_stock = last.stock
             ELSE IF last.stock[k] <= q THEN k \notin DOMAIN fish_stock
             ELSE k \in DOMAIN fish_stock /\ fish_stock[k] = last.stock[k] - q

\* C6 witness: an upper-case key removes part of what the lower-case key
\* holds and keeps the other species.
C6_Witness ==
    /\ last.op = "remove_fish"
    /\ last.fish_type = PyStr("GOLDFISH")
    /\ ValidQuantity(last.quantity)
    /\ DOMAIN last.stock = {"goldfish", "koi"}
    /\ last.stock["goldfish"] > last.quantity.v
    /\ fish_stock["goldfish"] = last.stock["goldfish"] - last.quantity.v
    /\ fish_stock["koi"] = last.stock["koi"]

\* C7: changing a dictionary returned by get_stock changes neither the
\* manager's stock (so a later get_stock returns it unchanged) nor any other
\* returned dictionary.
C7_DefensiveCopy ==
    last.op = "mutate_returned" =>
        /\ fish_stock = last.stock
        /\ get_stock(fish_stock).items = last.stock
        /\ \A j \in 1..Len(handles) :
               j # last.handle => Items(handles[j]) = last.items[j]

\* C7 witness: two returned dictionaries of a stock that holds fish, one of
\* them changed so that it differs from the stock and from the other.
C7_Witness ==
    /\ last.op = "mutate_returned"
    /\ Len(handles) = 2
    /\ fish_stock # EmptyMap
    /\ Items(handles[1]) # Items(handles[2])
    /\ Items(handles[last.handle]) # fish_stock
    /\ Items(handles[3 - last.handle]) = fish_stock

\* C8: a top-level execute_transaction ends with the engine inactive whether
\* its operation returned or raised, and when the operation returned the
\* call returns the operation's result.
C8_TopLevelEndsInactive ==
    TopLevelEnded =>
        /\ ~transaction_active
        /\ last.raised = "none" =>
               (last.err = "none" /\ last.result = last.returned)
        /\ last.err = "none" => last.result = last.returned

\* C8 witness: a top-level call whose operation changed stock and dimensions
\* and returned "success".
C8_Witness ==
    /\ TopLevelEnded
    /\ last.returned = "success"
    /\ last.result = "success"
    /\ fish_stock # last.entry.stock
    /\ dimensions # last.entry.dimensions
    /\ ~transaction_active

\* C9: when the operation run by execute_transaction raises E, the caller
\* receives E and the bookkeeping is cleaned up (top level: engine inactive;
\* nested: savepoint stack as on entry).
C9_OriginalErrorReraised ==
    (last.op = "execute_transaction" /\ last.raised # "none") =>
        /\ last.err = last.raised
        /\ last.kind = "top" => ~transaction_active
        /\ last.kind = "nested" =>
               transaction_stack = last.entry.engine.stack

\* C10: when the operation of a nested execute_transaction raises, the
\* rollback map is what it was when the nested call began, the caller
\* receives the error, and the transaction is still active.
C10_NestedFailureRestoresSavepoint ==
    (NestedEnded /\ last.raised # "none") =>
        /\ rollback_data = last.entry.engine.rb
        /\ last.err = last.raised
        /\ transaction_active
        /\ commit_transaction(Engine).err = "none"

\* C10 witness: the nested call began with the dimensions already saved and
\* no stock saved; its operation added fish (which saves the stock) and
\* raised; the saved stock is gone and the earlier entry is kept.
C10_Witness ==
    /\ NestedEnded
    /\ last.raised = "TestError"
    /\ DOMAIN last.entry.engine.rb = {"dimensions"}
    /\ fish_stock # last.entry.stock
    /\ DOMAIN rollback_data = {"dimensions"}
    /\ frames # <<>>

\* C11: while the operation of a top-level execute_transaction runs, with
\* any save_state calls and nested execute_transaction calls in it, every
\* entry present in the rollback map is the value the live object had when
\* the transaction began.
C11_RollbackStateIsPreTransaction ==
    (frames # <<>> /\ frames[1].kind = "top") =>
        /\ LET s == get_rollback_state(Engine, "fish_stock") IN
           s.present => s.value = frames[1].stock
        /\ LET d == get_rollback_state(Engine, "dimensions") IN
           d.present => d.value = frames[1].dimensions

\* C12: begin_transaction raises when a transaction is active, and
\* commit_transaction and rollback_transaction raise when none is; a call
\* that raised left the flag, the rollback map and the savepoint stack as
\* they were.
C12_StateErrorsLeaveEngine ==
    /\ last.op = "begin_transaction" =>
           /\ last.engine.active => last.err = "RuntimeError"
           /\ last.err # "none" => Engine = last.engine
    /\ last.op \in {"commit_transaction", "rollback_transaction"} =>
           /\ ~last.engine.active => last.err = "RuntimeError"
           /\ last.err # "none" => Engine = last.engine

\* C12 witness: a begin_transaction rejected while the running transaction
\* holds a saved entry and a savepoint.
C12_Witness ==
    /\ last.op = "begin_transaction"
    /\ last.err = "RuntimeError"
    /\ last.engine.rb # EmptyMap
    /\ last.engine.stack # <<>>
    /\ rollback_data = last.engine.rb

\* the call that just ended changed the stock / the dimensions
StockChanged ==
    /\ last.op \in {"add_fish", "remove_fish", "bulk_add_fish", "clear_stock",
                    "load_pond"}
    /\ fish_stock # last.stock
DimensionsChanged ==
    /\ last.op \in {"set_dimensions", "load_pond"}
    /\ dimensions # last.dimensions

\* C13 as written: every change of the stock or the dimensions by add_fish,
\* remove_fish, bulk_add_fish, clear_stock, set_dimensions or load_pond is
\* made while is_in_transaction() is true.
C13_ChangesOnlyInTransaction ==
    (StockChanged \/ DimensionsChanged) => last.in_transaction

\* C13: every change of the stock made by add_fish, remove_fish or
\* bulk_add_fish and every change of the dimensions made by set_dimensions is
\* made while is_in_transaction() is true (clear_stock and load_pond's own
\* assignments are made with no transaction started).
C13_TransactionalChanges ==
    (/\ last.op \in {"add_fish", "remove_fish", "bulk_add_fish",
                     "set_dimensions"}
     /\ (StockChanged \/ DimensionsChanged))
    => last.in_transaction

\* C13 witness: set_dimensions replaced earlier dimensions inside the
\* transaction it began itself.
C13_Witness ==
    /\ last.op = "set_dimensions"
    /\ last.dimensions.set
    /\ dimensions # last.dimensions
    /\ last.in_transaction
    /\ ~transaction_active

\* C14: whenever dimensions is set, its length, width and depth are
\* strictly positive and its shape is in the shape catalog; and set_dimensions
\* raises for a dimension that is not positive, whatever rules the catalog
\* supplies.
C14_DimensionsPositive ==
    /\ dimensions.set =>
           /\ dimensions.length_meters > 0
           /\ dimensions.width_meters > 0
           /\ dimensions.avg_depth_meters > 0
           /\ shape_exists(dimensions.shape)
    /\ (/\ last.op = "set_dimensions"
        /\ (last.length <= 0 \/ last.width <= 0 \/ last.depth <= 0))
       => last.err # "none"

\* a dimension outside the bounds the rules supply for it
OutOfBounds(name, x) ==
    \/ name \in DOMAIN validation_rules.min_dimensions
          /\ x < validation_rules.min_dimensions[name]
    \/ name \in DOMAIN validation_rules.max_dimensions
          /\ x > validation_rules.max_dimensions[name]

\* C15: set_dimensions with a dimension outside the supplied bounds or a
\* shape the catalog does not know raises ValueError and leaves the
\* dimensions and the stock as they were; when it succeeds the dimensions are
\* one new value made of the four arguments and the stock is unchanged.
C15_SetDimensionsAllOrNothing ==
    last.op = "set_dimensions" =>
        /\ (\/ OutOfBounds("length", last.length)
            \/ OutOfBounds("width", last.width)
            \/ OutOfBounds("depth", last.depth)
            \/ last.shape.ty = "str" /\ Lower(last.shape.s) \notin ShapeCatalog)
           => /\ last.err = "ValueError"
              /\ dimensions = last.dimensions
              /\ fish_stock = last.stock
        /\ last.err = "none" =>
              /\ dimensions = [set |-> TRUE, length_meters |-> last.length,
                               width_meters |-> last.width,
                               avg_depth_meters |-> last.depth,
                               shape |-> last.shape.s]
              /\ fish_stock = last.stock
        /\ last.err # "none" => dimensions = last.dimensions

\* C15 witness: a call with an unknown shape and valid numbers, made when
\* dimensions were set and fish stocked, raised and changed nothing.
C15_Witness ==
    /\ last.op = "set_dimensions"
    /\ last.shape = PyStr("star")
    /\ ~OutOfBounds("width", last.width)
    /\ ~OutOfBounds("depth", last.depth)
    /\ last.dimensions.set
    /\ last.stock # EmptyMap
    /\ last.err = "ValueError"
    /\ dimensions = last.dimensions

\* C16: calculate_volume_liters raises or returns a strictly positive
\* volume; a multiplier or a dimension that makes the computed volume zero or
\* negative makes it raise.
C16_VolumePositiveOrError ==
    last.op = "calculate_volume_liters" =>
        /\ last.out.err = "none" => last.out.liters.n > 0
        /\ LET d == last.dimensions
               m == ConfigGet(last.shape_config, "multiplier", 100)
           IN (d.set /\ (m <= 0 \/ d.avg_depth_meters <= 0 \/ d.width_meters <= 0))
              => last.out.err # "none"

\* C16 witness: dimensions that pass validation, a negative multiplier, and
\* the call raised.
C16_Witness ==
    /\ last.op = "calculate_volume_liters"
    /\ validate_dimensions_error(validation_rules, last.dimensions) = "none"
    /\ last.dimensions.length_meters > 0
    /\ last.dimensions.width_meters > 0
    /\ last.dimensions.avg_depth_meters > 0
    /\ ConfigGet(last.shape_config, "multiplier", 100) < 0
    /\ last.out.err = "ValueError"

\* the area the table of formula kinds gives for a configuration
C17_TableArea(shape_config, length, width) ==
    LET kind == IF "formula_type" \in DOMAIN shape_config
                THEN shape_config.formula_type ELSE "simple"
        words == IF "area_formula" \in DOMAIN shape_config
                 THEN shape_config.area_formula ELSE {}
        rectangle == [coef |-> "1", n |-> length * width]
        ellipse == [coef |-> "pi/4", n |-> length * width]
    IN IF kind = "simple" THEN rectangle
       ELSE IF kind = "circular" THEN [coef |-> "pi/4", n |-> width * width]
       ELSE IF kind = "elliptical" THEN ellipse
       ELSE IF kind = "triangular" THEN [coef |-> "1/2", n |-> length * width]
       ELSE IF kind = "polygon" /\ "hexagonal" \in words
       THEN [coef |-> "3*sqrt(3)/2", n |-> width * width]
       ELSE IF kind = "polygon" /\ "octagonal" \in words
       THEN [coef |-> "2*(1+sqrt(2))", n |-> width * width]
       ELSE IF kind = "approximation" /\ "pi" \in words THEN ellipse
       ELSE rectangle

C18_WidthOnly(shape_config) ==
    /\ "formula_type" \in DOMAIN shape_config
    /\ \/ shape_config.formula_type = "circular"
       \/ /\ shape_config.formula_type = "polygon"
          /\ "area_formula" \in DOMAIN shape_config
          /\ shape_config.area_formula \cap {"hexagonal", "octagonal"} # {}

\* C18: for a shape whose area uses the width only, the outcome of
\* calculate_volume_liters is the same for every length, 0 included, when
\* the width and the depth are inside the bounds.
C18_LengthUnused ==
    (/\ last.op = "calculate_volume_liters"
     /\ C18_WidthOnly(last.shape_config)
     /\ validate_dimensions_error(validation_rules,
            [last.dimensions EXCEPT !.length_meters = 40]) = "none")
    => \A l \in VolumeLengths :
           calculate_volume_liters(validation_rules, last.shape_config,
               [last.dimensions EXCEPT !.length_meters = l]) = last.out

\* the items of a stock that count: quantity above 0
C19_Counted(items) == {i \in 1..Len(items) : items[i][2] > 0}

\* the value of attribute for the species of item i, or None when the
\* species is not in the cache
C19_Factor(fish_cache, attribute, items, i) ==
    LET k == Lower(items[i][1]) IN
    IF k \in DOMAIN fish_cache THEN fish_cache[k][attribute] ELSE None

\* the sum over the counted items from i to the end of factor x quantity
RECURSIVE C19_Sum(_, _, _, _)
C19_Sum(fish_cache, attribute, items, i) ==
    IF i > Len(items) THEN 0
    ELSE (IF i \in C19_Counted(items)
          THEN C19_Factor(fish_cache, attribute, items, i).value * items[i][2]
          ELSE 0)
         + C19_Sum(fish_cache, attribute, items, i + 1)

\* C19: calculate_required_volume and calculate_bioload fail exactly when an
\* item with quantity above 0 names a species missing from the catalog or
\* one whose factor is absent or not positive; otherwise they return the sum
\* over the items with quantity above 0 of factor x quantity (0 for an empty
\* stock).
C19_StockTotals ==
    last.op \in {"calculate_required_volume", "calculate_bioload"} =>
        LET attribute == IF last.op = "calculate_required_volume"
                         THEN "min_liters_per_fish" ELSE "bioload_factor"
            bad == \E i \in C19_Counted(last.fish_stock) :
                       LET f == C19_Factor(last.fish_cache, attribute,
                                           last.fish_stock, i)
                       IN ~f.present \/ f.value <= 0
        IN IF bad THEN last.out.err # "none"
           ELSE last.out = [err |-> "none",
                            value |-> C19_Sum(last.fish_cache, attribute,
                                              last.fish_stock, 1)]

\* C19 witness: a stock of two counted species (one written in capitals)
\* gave a bioload that is the sum of both.
C19_Witness ==
    /\ last.op = "calculate_bioload"
    /\ last.fish_stock = <<<<"GOLDFISH", 2>>, <<"koi", 3>>>>
    /\ last.out = [err |-> "none", value |-> 10 * 2 + 25 * 3]

C21_Valid(all_fish) ==
    {i \in 1..Len(all_fish) :
        /\ all_fish[i].min_liters_per_fish.present
        /\ all_fish[i].min_liters_per_fish.value > 0}

C22_PumpSize ==
    last.op = "calculate_pump_size" =>
        LET v == last.pond_volume_liters
            b == last.bioload
        IN IF v <= 0 \/ b < 0 THEN last.out.err # "none"
           ELSE /\ last.out.err = "none"
                /\ last.out.value[1] * 20 <= v * (10 + b)
                /\ (last.out.value[1] + 1) * 20 > v * (10 + b)
                /\ last.out.value[2] = IF b <= 5 THEN "Light bioload"
                                       ELSE IF b <= 15 THEN "Medium bioload"
                                       ELSE "Heavy bioload"

\* C23: for a volume above 0 and a bioload of 0 or more,
\* calculate_filter_specifications reports the biological filter volume
\* floor(volume * min(15, 5 + bioload) / 100), the UV power floor(volume / 285)
\* up to a bioload of 10 and floor(volume / 190) above it, and the fixed
\* mechanical-filter text; for a volume of 0 or less or a negative bioload it
\* raises.
C23_FilterSpecifications ==
    last.op = "calculate_filter_specifications" =>
        LET v == last.pond_volume_liters
            b == last.bioload
            percent == IF 5 + b < 15 THEN 5 + b ELSE 15
            rate == IF b <= 10 THEN 285 ELSE 190
        IN IF v <= 0 \/ b < 0 THEN last.out.err # "none"
           ELSE LET bio == last.out.value.biological_filter
                    uv == last.out.value.uv_sterilizer
                IN /\ last.out.err = "none"
                   /\ bio[1] * 100 <= v * percent
                   /\ (bio[1] + 1) * 100 > v * percent
                   /\ bio[2] = " liters filter media"
                   /\ uv[1] * rate <= v
                   /\ (uv[1] + 1) * rate > v
                   /\ uv[2] = " watts"
                   /\ last.out.value.mechanical_filter =
                          "Pre-filter with 50-100 micron capability"

\* C23 witness: a volume that is a multiple of 190 with a bioload above 10,
\* where the UV power is the exact quotient.
C23_Witness ==
    /\ last.op = "calculate_filter_specifications"
    /\ last.pond_volume_liters = 570
    /\ last.bioload = 11
    /\ last.out.err = "none"
    /\ last.out.value.uv_sterilizer = <<3, " watts">>
    /\ last.out.value.biological_filter = <<85, " liters filter media">>

C25_NestedSavepoints ==
    [][/\ (last'.op = "call" /\ last'.kind = "nested") =>
              /\ transaction_stack' = Append(transaction_stack, rollback_data)
              /\ rollback_data' = rollback_data
              /\ transaction_active'
       /\ (last'.op = "execute_transaction" /\ last'.kind = "nested") =>
              /\ transaction_stack # <<>>
              /\ transaction_stack' = Front(transaction_stack)
              /\ transaction_stack' = last'.entry.engine.stack
              /\ transaction_active'
              /\ last'.raised = "none" =>
                     /\ rollback_data' = rollback_data
                     /\ last'.err = "none"]_vars

\* C25 witness: a nested call inside a nested call has returned; the stock
\* its operation saved is in the rollback map, and the savepoint of the
\* enclosing nested call is still on the stack.
C25_Witness ==
    /\ last.op = "execute_transaction"
    /\ last.kind = "nested"
    /\ last.raised = "none"
    /\ Len(transaction_stack) = 1
    /\ "fish_stock" \in DOMAIN rollback_data
    /\ "fish_stock" \notin DOMAIN last.entry.engine.rb
    /\ transaction_active

\* the live value save_state is handed for a key
C26_Live(key) == IF key = "fish_stock" THEN fish_stock ELSE dimensions

\* C26: snapshots are copies.  An entry that save_state stores in an active
\* transaction holds the value as it was when it was saved; while the entry
\* stays in the rollback map it holds that same value, whatever is done to
\* the live stock afterwards, and so does every savepoint that stays on the
\* stack; save_state called while no transaction is active stores nothing.
C26_SnapshotsAreCopies ==
    [][/\ \A k \in (DOMAIN rollback_data') \ (DOMAIN rollback_data) :
              /\ transaction_active'
              /\ Held(get_rollback_state(Engine, k)'.value, fish_stock')
                     = C26_Live(k)
       /\ \A k \in (DOMAIN rollback_data') \cap (DOMAIN rollback_data) :
              Held(rollback_data'[k], fish_stock')
                  = Held(rollback_data[k], fish_stock)
       /\ \A i \in 1..Len(transaction_stack) :
              i <= Len(transaction_stack') =>
                  \A k \in DOMAIN transaction_stack[i] :
                      /\ k \in DOMAIN transaction_stack'[i]
                      /\ Held(transaction_stack'[i][k], fish_stock')
                             = Held(transaction_stack[i][k], fish_stock)
       /\ (last'.op = "save_state" /\ ~transaction_active) =>
              /\ rollback_data' = EmptyMap
              /\ transaction_stack' = <<>>]_vars

\* C26 witness: inside a nested call, add_fish has changed the live stock
\* after the empty stock was saved; the rollback map and the savepoint still
\* hold the empty stock.
C26_Witness ==
    /\ last.op = "add_fish"
    /\ last.err = "none"
    /\ transaction_active
    /\ transaction_stack # <<>>
    /\ "fish_stock" \in DOMAIN Top(transaction_stack)
    /\ Top(transaction_stack)["fish_stock"] = EmptyMap
    /\ get_rollback_state(Engine, "fish_stock")
           = [present |-> TRUE, value |-> EmptyMap]
    /\ fish_stock = [goldfish |-> 2 * MaxQuantity]

\* C27: an engine that is not active has an empty rollback map and an empty
\* savepoint stack: outside a transaction get_rollback_state finds no key,
\* and a savepoint on the stack implies an active transaction.
C27_InactiveEngineIsEmpty ==
    /\ ~transaction_active =>
           /\ rollback_data = EmptyMap
           /\ transaction_stack = <<>>
           /\ \A key \in {"fish_stock", "dimensions", "pond_data"} :
                  get_rollback_state(Engine, key) = [present |-> FALSE]
    /\ transaction_stack # <<>> => transaction_active

\* C27 witness: commit_transaction, called by an operation inside a nested
\* call while the rollback map and the savepoint stack held entries, has
\* left the engine inactive and empty.
C27_Witness ==
    /\ last.op = "commit_transaction"
    /\ last.err = "none"
    /\ last.engine.rb # EmptyMap
    /\ last.engine.stack # <<>>
    /\ ~transaction_active
    /\ frames # <<>>

\* the items of a dictionary in each order they can have been inserted
C28_Items(stock) ==
    {items \in [1..Cardinality(DOMAIN stock) -> {<<k, stock[k]>> : k \in DOMAIN stock}] :
         \A i, j \in DOMAIN items : items[i][1] = items[j][1] => i = j}

\* C28: every key of the stock is a lower-case key of the catalog;
\* calculate_required_volume and calculate_bioload over a repository with
\* that catalog, applied to get_stock(), do not fail with a not-found error;
\* has_fish(k) is true exactly when lower(k) is a key of get_stock().
C28_StockKeysInCatalog ==
    /\ \A k \in DOMAIN fish_stock : k \in FishCatalog /\ Lower(k) = k
    /\ \A c \in FishCaches, items \in C28_Items(get_stock(fish_stock).items) :
           /\ DOMAIN c = FishCatalog
           /\ calculate_required_volume(c, items).err # "KeyError"
           /\ calculate_bioload(c, items).err # "KeyError"
    /\ \A k \in {"goldfish", "GOLDFISH", "Goldfish", "koi", "KOI",
                 "invalid_fish"} :
           has_fish(fish_stock, PyStr(k))
               <=> Lower(k) \in DOMAIN get_stock(fish_stock).items

\* C28 witness: add_fish called with a key in capitals has returned; the
\* stock holds both species of the catalog under their lower-case keys.
C28_Witness ==
    /\ last.op = "add_fish"
    /\ last.fish_type = PyStr("GOLDFISH")
    /\ last.err = "none"
    /\ DOMAIN fish_stock = {"goldfish", "koi"}
    /\ has_fish(fish_stock, PyStr("KOI"))
    /\ ~has_fish(fish_stock, PyStr("invalid_fish"))

\* C29: when bulk_add_fish accepts a batch, the stock it leaves is the stock
\* that add_fish called once for each entry, in the order of the batch,
\* leaves from the same stock, every one of those calls succeeding; entries
\* whose keys differ only in letter case add up under one lower-case key;
\* both ways leave the engine inactive.
C29_BulkEqualsAdds ==
    (last.op = "bulk_add_fish" /\ last.err = "none") =>
        LET adds == AddEach(NewEngine,
                            [fish_stock |-> last.stock,
                             dimensions |-> dimensions],
                            last.fish_additions, 1)
        IN /\ adds.err = "none"
           /\ adds.st.fish_stock = fish_stock
           /\ adds.eng = NewEngine
           /\ Engine = NewEngine

\* C29 witness: a batch with the keys goldfish and GOLDFISH has been added to
\* a stock that already held goldfish; the three quantities are summed.
C29_Witness ==
    /\ last.op = "bulk_add_fish"
    /\ last.err = "none"
    /\ last.fish_additions = <<<<PyStr("goldfish"), PyInt(5000)>>,
                               <<PyStr("GOLDFISH"), PyInt(5000)>>>>
    /\ last.stock = [goldfish |-> 2 * 5000]
    /\ fish_stock = [goldfish |-> 2 * 15000]

\* the dict with these items
C30_Dict(items) ==
    [k \in {items[i][1].s : i \in DOMAIN items} |->
         (items[CHOOSE i \in DOMAIN items : items[i][1].s = k][2]).v]

\* C30: save_pond, called with the dimensions set, writes the dimensions and
\* the stock of the planner; load_pond of the saved configuration succeeds
\* and leaves exactly the dimensions and the stock that were saved, also
\* when a quantity of the stock is above 10000; a load_pond that raises
\* leaves the dimensions and the stock as they were before the call.
C30_SaveLoadRoundTrip ==
    /\ (last.op = "save_pond" /\ last.dimensions.set) =>
           /\ last.err = "none"
           /\ read_pond(saved_ponds).found
           /\ read_pond(saved_ponds).dimensions = dimensions
           /\ C30_Dict(read_pond(saved_ponds).fish_stock) = fish_stock
    /\ (last.op = "load_pond" /\ last.configuration.found) =>
           /\ last.err = "none"
           /\ dimensions = last.configuration.dimensions
           /\ fish_stock = C30_Dict(last.configuration.fish_stock)
    /\ (last.op = "load_pond" /\ last.err # "none") =>
           /\ dimensions = last.dimensions
           /\ fish_stock = last.stock

====
